---- MODULE Spec2Model ----
(***************************************************************************)
(* The recording session manager of playwright-mcp (sessionTools.ts) on    *)
(* top of runArtifacts.ts (startRun / finishRun).                          *)
(*                                                                         *)
(* JavaScript runs one handler at a time, but a handler gives up control   *)
(* at every `await`; so each handler is a sequence of atomic steps, one    *)
(* per awaited collaborator call, and the steps of two requests may        *)
(* interleave (Spec), unless the transport hands over a request only when  *)
(* the previous one has been answered (SpecSerial).  Each collaborator     *)
(* call (file system, browser) may succeed or throw.                       *)
(***************************************************************************)
EXTENDS Integers, Sequences, FiniteSets, TLC

\* ------------------------------------------------------------------ bounds
\* Date.now() takes the values 0..MaxClock.
MaxClock == 1
\* browser.newContext() is called at most MaxContexts times.
MaxContexts == 2
\* At most MaxOverlaps requests are dispatched while another is in flight.
MaxOverlaps == 2
\* The embedded recording server accepts at most MaxRecordings starts.
MaxRecordings == 3
\* The histories listRecordings is applied to on its own have at most
\* MaxHistory entries.
MaxHistory == 4
\* chromium.launch() is called at most MaxLaunches times.
MaxLaunches == 2

\* The slots for requests in flight: two, so that two handlers can overlap.
Callers == {1, 2}
\* The arguments the caller chooses from.  "" stands for an omitted runId too
\* (`runId || ...` treats both alike).
ProjectIds == {"p", "q"}
RunIdArgs == {"r", ""}
\* The values of Math.random().toString(36).substr(2, 9).
RandomSuffixes == {"x"}
\* The `limit` arguments of listRecordings.
Limits == {1, 2, 10}
\* The `limit` arguments when listRecordings is applied on its own.
ListLimits == {1, 2, 3, 4, 5, 10, 100}

\* The projectId and runId strings when the path derivation is applied on
\* its own: plain identifiers, and strings with path syntax, which nothing in
\* the source rejects.
PathProjectIds == {"p", "q", "project-1", "a.b", "..", ".", "a/b", "a/../.."}
PathRunIds == {"r", "s", "run-001", "run_0_x", "..", ".", "x/y"}

\* ------------------------------------------------------- JavaScript values
\* null / undefined where an object is expected.
Null == [null |-> TRUE]
\* undefined where a string is expected (RunCtx.videoPath, publicVideoUrl).
Undefined == "<undefined>"
\* undefined where a Date is expected (endTime).
NoTime == -1

VARIABLES
  now,             \* the clock read by Date.now() and new Date()
  currentSession,  \* sessionManager.currentSession
  sessionHistory,  \* sessionManager.sessionHistory
  contexts,        \* the browser contexts made by browser.newContext(), in order
  runCtxs,         \* the RunCtx objects returned by startRun, by context index
  serial,          \* TRUE: the transport dispatches a request only when none is in flight
  overlaps,        \* the number of requests dispatched while another was in flight
  pc,              \* per request slot: "idle" or the await it is suspended at
  frame,           \* per request slot: the local variables of the suspended handler
  response,        \* the latest reply; Null from the dispatch of a start or stop
                   \* that suspends until the next handler returns
  srvCurrentSession,  \* recording server: `let currentSession`
  srvSessionHistory,  \* recording server: `let sessionHistory`
  srvResponse,        \* recording server: the latest reply of its call-tool handler
  tracing,            \* browser: the contexts whose trace capture is running, where
                      \* the browser's own bookkeeping of it is followed
  thisBrowser,        \* recording server: this.browser (0: undefined)
  thisContext,        \* recording server: this.context (0: undefined)
  thisPage,           \* recording server: this.page (0: undefined)
  launched,           \* the number of browsers chromium.launch() has given
  toolPc,             \* per request slot of the call-tool handler: "idle" or its await
  toolFrame           \* per request slot: the objects the suspended call works on

\* The state of the session manager (sessionTools.ts) and its collaborators.
mgrVars == <<currentSession, sessionHistory, contexts, runCtxs, serial, overlaps, pc, frame, response>>

\* The state of the embedded recording server.
srvVars == <<srvCurrentSession, srvSessionHistory, srvResponse>>

\* The state of the collaborators that only some specifications follow.
toolVars == <<thisBrowser, thisContext, thisPage, launched, toolPc, toolFrame>>
extVars == <<tracing, toolVars>>

vars == <<now, mgrVars, srvVars, extVars>>

\* --------------------------------------------------------- string helpers
\* String.prototype.startsWith at position i (1-based).
MatchesAt(s, pat, i) ==
  /\ i + Len(pat) - 1 <= Len(s)
  /\ SubSeq(s, i, i + Len(pat) - 1) = pat

RECURSIVE IndexOfFrom(_, _, _)
\* String.prototype.indexOf, 1-based; 0 when pat does not occur from i on.
IndexOfFrom(s, pat, i) ==
  IF i + Len(pat) - 1 > Len(s) THEN 0
  ELSE IF MatchesAt(s, pat, i) THEN i
  ELSE IndexOfFrom(s, pat, i + 1)

\* String.prototype.replace with a string pattern: the first occurrence only.
Replace(s, pat, rep) ==
  LET i == IndexOfFrom(s, pat, 1)
  IN IF i = 0 THEN s
     ELSE SubSeq(s, 1, i - 1) \o rep \o SubSeq(s, i + Len(pat), Len(s))

\* rc.videoPath?.replace(...): undefined stays undefined.
OptReplace(s, pat, rep) == IF s = Undefined THEN Undefined ELSE Replace(s, pat, rep)

RECURSIVE Segments(_, _, _)
\* The "/"-separated segments of s from position i on, after the partial
\* segment cur.
Segments(s, i, cur) ==
  IF i > Len(s) THEN <<cur>>
  ELSE IF SubSeq(s, i, i) = "/" THEN <<cur>> \o Segments(s, i + 1, "")
  ELSE Segments(s, i + 1, cur \o SubSeq(s, i, i))

RECURSIVE Resolve(_, _)
\* path.normalize on the segments of an absolute path: "" and "." are
\* dropped, ".." removes the segment before it (and is dropped at the root).
Resolve(segs, out) ==
  IF segs = <<>> THEN out
  ELSE IF Head(segs) = "" \/ Head(segs) = "." THEN Resolve(Tail(segs), out)
  ELSE IF Head(segs) = ".."
       THEN Resolve(Tail(segs), IF out = <<>> THEN out ELSE SubSeq(out, 1, Len(out) - 1))
  ELSE Resolve(Tail(segs), Append(out, Head(segs)))

RECURSIVE JoinSegments(_)
\* The absolute path of the segments.
JoinSegments(segs) ==
  IF segs = <<>> THEN "" ELSE "/" \o Head(segs) \o JoinSegments(Tail(segs))

\* path.normalize of an absolute path that does not end in "/".
Normalize(path) ==
  LET segs == Resolve(Segments(path, 1, ""), <<>>)
  IN IF segs = <<>> THEN "/" ELSE JoinSegments(segs)

\* path.join(dir, name) for an absolute dir: the two are joined with "/" and
\* the result is normalized.
PathJoin(dir, name) == Normalize(dir \o "/" \o name)

\* ------------------------------------------------------------ runArtifacts
StorageRoot == "/data/"
PublicBase == "https://videos.qabot.app/"

\* const baseDir = `/data/${projectId}/${runId}`
BaseDir(projectId, runId) == StorageRoot \o projectId \o "/" \o runId

\* The RunCtx startRun returns: videoPath is not set yet.
NewRunCtx(ctx, projectId, runId) ==
  [ context   |-> ctx,
    baseDir   |-> BaseDir(projectId, runId),
    videoPath |-> Undefined,
    harPath   |-> PathJoin(BaseDir(projectId, runId), "network.har"),
    tracePath |-> PathJoin(BaseDir(projectId, runId), "trace.zip") ]

\* const target = path.join(rc.baseDir, 'video.webm')
VideoTarget(rc) == PathJoin(rc.baseDir, "video.webm")

\* The object finishRun returns.
Manifest(rc) ==
  [ videoPath      |-> rc.videoPath,
    harPath        |-> rc.harPath,
    tracePath      |-> rc.tracePath,
    publicVideoUrl |-> OptReplace(rc.videoPath, StorageRoot, PublicBase),
    publicHarUrl   |-> Replace(rc.harPath, StorageRoot, PublicBase),
    publicTraceUrl |-> Replace(rc.tracePath, StorageRoot, PublicBase) ]

\* ------------------------------------------------------------ sessionTools
\* Faulty variant: the generated runId does not contain the clock value.
FinalRunId_NoClock(runId, millis, suffix) ==
  IF runId # "" THEN runId ELSE "run_" \o suffix

\* runId || `run_${Date.now()}_${Math.random().toString(36).substr(2, 9)}`
FinalRunId(runId, millis, suffix) ==
  IF runId # "" THEN runId ELSE "run_" \o ToString(millis) \o "_" \o suffix

\* Faulty variant: the guard against a second session is missing.
AlreadyActive_Never == FALSE

\* startRecordingSession: if (sessionManager.currentSession)
AlreadyActive == currentSession # Null

\* stopRecordingSession: if (!sessionManager.currentSession)
NoActiveSession == currentSession = Null

\* currentSession?.projectId === projectId && currentSession?.runId === runId
IsCurrent(projectId, runId) ==
  /\ currentSession # Null
  /\ currentSession.projectId = projectId
  /\ currentSession.runId = runId

\* sessionHistory.find(s => s.projectId === projectId && s.runId === runId):
\* the index of the first match, 0 when there is none.
FindEntry(history, projectId, runId) ==
  LET hits == {i \in 1..Len(history) :
                 history[i].projectId = projectId /\ history[i].runId = runId}
  IN IF hits = {} THEN 0 ELSE CHOOSE i \in hits : \A j \in hits : i <= j

Idle == [c \in Callers |-> "idle"]
NoFrame == [c \in Callers |-> Null]

\* A request is dispatched to the first free slot; under the serial transport
\* only when no other handler is suspended.
CanDispatch(c) ==
  /\ pc[c] = "idle"
  /\ \A d \in Callers : d < c => pc[d] # "idle"
  /\ serial => \A d \in Callers : pc[d] = "idle"
  /\ (\E d \in Callers : pc[d] # "idle") => overlaps < MaxOverlaps

\* The dispatch is counted when it overlaps a request in flight.
Dispatch(c) ==
  /\ CanDispatch(c)
  /\ overlaps' = IF \E d \in Callers : pc[d] # "idle" THEN overlaps + 1 ELSE overlaps

\* A handler returns: its slot is free again and its result is the reply.
Return(c, result) ==
  /\ pc' = [pc EXCEPT ![c] = "idle"]
  /\ frame' = [frame EXCEPT ![c] = Null]
  /\ response' = result

\* A handler is suspended at the await `at`.
Await(c, at) ==
  /\ pc' = [pc EXCEPT ![c] = at]
  /\ UNCHANGED <<frame, response>>

\* Faulty variant: the rejection is thrown to the caller instead of returned.
AlreadyActiveResult_Thrown(projectId, runId) ==
  [ op |-> "start",
    thrown |-> "Recording session already active: "
                 \o currentSession.projectId \o "/" \o currentSession.runId ]

\* The result of startRecordingSession when a session is active.
AlreadyActiveResult(projectId, runId) ==
  [ op |-> "start", success |-> FALSE, projectId |-> projectId, runId |-> runId,
    message |-> "Recording session already active: "
                  \o currentSession.projectId \o "/" \o currentSession.runId ]

\* Faulty variant: the history entry is pushed although startRun threw.
StartCatch_AppendsHistory(c, err) ==
  /\ Return(c, [ op |-> "start", success |-> FALSE,
                 projectId |-> frame[c].projectId, runId |-> frame[c].finalRunId,
                 message |-> "Failed to start recording session: " \o err ])
  /\ sessionHistory' = Append(sessionHistory,
                              [ projectId |-> frame[c].projectId, runId |-> frame[c].finalRunId,
                                startTime |-> now, endTime |-> NoTime, artifacts |-> Null ])
  /\ UNCHANGED <<currentSession, runCtxs>>

\* The catch block of startRecordingSession; err is error.message.
StartCatch(c, err) ==
  /\ Return(c, [ op |-> "start", success |-> FALSE,
                 projectId |-> frame[c].projectId, runId |-> frame[c].finalRunId,
                 message |-> "Failed to start recording session: " \o err ])
  /\ UNCHANGED <<currentSession, sessionHistory, runCtxs>>

\* startRecordingSession up to its first await (fs.mkdir in startRun).
StartCall(c, projectId, runId, suffix) ==
  /\ Dispatch(c)
  /\ IF AlreadyActive
     THEN Return(c, AlreadyActiveResult(projectId, runId))
     ELSE /\ Len(contexts) + Cardinality({d \in Callers : pc[d] \in {"mkdir", "newContext"}})
               < MaxContexts
          /\ pc' = [pc EXCEPT ![c] = "mkdir"]
          /\ frame' = [frame EXCEPT ![c] =
                         [ op |-> "start", projectId |-> projectId,
                           finalRunId |-> FinalRunId(runId, now, suffix), context |-> 0 ]]
          /\ response' = Null
  /\ UNCHANGED <<now, currentSession, sessionHistory, contexts, runCtxs, serial>>

\* startRun: await fs.mkdir(baseDir, { recursive: true }) settles.
Mkdir(c, ok) ==
  /\ pc[c] = "mkdir"
  /\ IF ok
     THEN Await(c, "newContext") /\ UNCHANGED <<currentSession, sessionHistory, runCtxs>>
     ELSE StartCatch(c, "mkdir failed")
  /\ UNCHANGED <<now, contexts, serial, overlaps>>

\* startRun: await browser.newContext({ recordVideo, recordHar }) settles.
NewContext(c, ok) ==
  /\ pc[c] = "newContext"
  /\ IF ok
     THEN /\ contexts' = Append(contexts, [closed |-> FALSE])
          /\ pc' = [pc EXCEPT ![c] = "tracingStart"]
          /\ frame' = [frame EXCEPT ![c].context = Len(contexts) + 1]
          /\ UNCHANGED <<response, currentSession, sessionHistory, runCtxs>>
     ELSE /\ StartCatch(c, "newContext failed")
          /\ UNCHANGED contexts
  /\ UNCHANGED <<now, serial, overlaps>>

\* startRun: await context.tracing.start({ screenshots, snapshots }) settles.
TracingStart(c, ok) ==
  /\ pc[c] = "tracingStart"
  /\ IF ok
     THEN Await(c, "newPage") /\ UNCHANGED <<currentSession, sessionHistory, runCtxs>>
     ELSE StartCatch(c, "tracing.start failed")
  /\ UNCHANGED <<now, contexts, serial, overlaps>>

\* The session startRecordingSession stores in the active slot.
NewSession(projectId, runId, startTime, runCtx) ==
  [ projectId |-> projectId, runId |-> runId, startTime |-> startTime, runCtx |-> runCtx ]

\* The entry startRecordingSession pushes onto the history.
NewEntry(projectId, runId, startTime) ==
  [ projectId |-> projectId, runId |-> runId, startTime |-> startTime,
    endTime |-> NoTime, artifacts |-> Null ]

\* Faulty variant: the session is made active without a history entry.
StartDone_SkipsHistory(c, runCtx) ==
  LET f == frame[c] IN
  /\ currentSession' = NewSession(f.projectId, f.finalRunId, now, runCtx)
  /\ UNCHANGED sessionHistory
  /\ Return(c, [ op |-> "start", success |-> TRUE,
                 projectId |-> f.projectId, runId |-> f.finalRunId,
                 message |-> "Recording session started: "
                               \o f.projectId \o "/" \o f.finalRunId ])

\* startRecordingSession after `await startRun(...)` has given runCtx.
StartDone(c, runCtx) ==
  LET f == frame[c] IN
  /\ currentSession' = NewSession(f.projectId, f.finalRunId, now, runCtx)
  /\ sessionHistory' = Append(sessionHistory, NewEntry(f.projectId, f.finalRunId, now))
  /\ Return(c, [ op |-> "start", success |-> TRUE,
                 projectId |-> f.projectId, runId |-> f.finalRunId,
                 message |-> "Recording session started: "
                               \o f.projectId \o "/" \o f.finalRunId ])

\* startRun: await context.newPage() settles; on success startRun returns the
\* RunCtx and startRecordingSession runs to its end.
NewPage(c, ok) ==
  /\ pc[c] = "newPage"
  /\ IF ok
     THEN LET f == frame[c] IN
          /\ runCtxs' = (f.context :> NewRunCtx(f.context, f.projectId, f.finalRunId))
                          @@ runCtxs
          /\ StartDone(c, f.context)
     ELSE StartCatch(c, "newPage failed")
  /\ UNCHANGED <<now, contexts, serial, overlaps>>

\* Faulty variant: a stop with nothing to stop is reported as a success.
NoActiveSessionResult_Success ==
  [ op |-> "stop", success |-> TRUE, message |-> "No active recording session to stop" ]

\* The result of stopRecordingSession when no session is active.
NoActiveSessionResult ==
  [ op |-> "stop", success |-> FALSE, message |-> "No active recording session to stop" ]

\* Faulty variant: the catch block forces the manager back to Idle.
StopCatch_ClearsSlot(c, err) ==
  /\ Return(c, [ op |-> "stop", success |-> FALSE,
                 projectId |-> frame[c].projectId, runId |-> frame[c].runId,
                 message |-> "Failed to stop recording session: " \o err ])
  /\ currentSession' = Null
  /\ UNCHANGED sessionHistory

\* Faulty variant: the catch block stamps endTime on the history entry
\* although the session stays active.
StopCatch_MarksEnded(c, err) ==
  /\ Return(c, [ op |-> "stop", success |-> FALSE,
                 projectId |-> frame[c].projectId, runId |-> frame[c].runId,
                 message |-> "Failed to stop recording session: " \o err ])
  /\ sessionHistory' = [sessionHistory EXCEPT ![Len(sessionHistory)].endTime = now]
  /\ UNCHANGED currentSession

\* The catch block of stopRecordingSession; err is error.message.
StopCatch(c, err) ==
  /\ Return(c, [ op |-> "stop", success |-> FALSE,
                 projectId |-> frame[c].projectId, runId |-> frame[c].runId,
                 message |-> "Failed to stop recording session: " \o err ])
  /\ UNCHANGED <<currentSession, sessionHistory>>

\* stopRecordingSession up to its first await in finishRun: v.path() when
\* rc.page.video() gives a handle, tracing.stop() when it gives none.
StopCall(c, hasVideo) ==
  /\ Dispatch(c)
  /\ IF NoActiveSession
     THEN Return(c, NoActiveSessionResult)
     ELSE /\ pc' = [pc EXCEPT ![c] = IF hasVideo THEN "videoPath" ELSE "tracingStop"]
          /\ frame' = [frame EXCEPT ![c] =
                         [ op |-> "stop", projectId |-> currentSession.projectId,
                           runId |-> currentSession.runId,
                           runCtx |-> currentSession.runCtx ]]
          /\ response' = Null
  /\ UNCHANGED <<now, currentSession, sessionHistory, contexts, runCtxs, serial>>

\* Faulty variant: a throw of v.path() leaves finishRun and reaches the catch
\* block of stopRecordingSession.
VideoPath_Throws(c, ok) ==
  /\ pc[c] = "videoPath"
  /\ IF ok
     THEN Await(c, "rename") /\ UNCHANGED <<currentSession, sessionHistory>>
     ELSE StopCatch(c, "video.path failed")
  /\ UNCHANGED <<now, contexts, runCtxs, serial, overlaps>>

\* finishRun: await v.path() settles; a throw is swallowed by the outer catch.
VideoPath(c, ok) ==
  /\ pc[c] = "videoPath"
  /\ Await(c, IF ok THEN "rename" ELSE "tracingStop")
  /\ UNCHANGED <<now, currentSession, sessionHistory, contexts, runCtxs, serial, overlaps>>

\* rc.videoPath = target
SetVideoPath(rcs, i) == [rcs EXCEPT ![i].videoPath = VideoTarget(rcs[i])]

\* finishRun: await fs.rename(raw, target) settles; on failure the .catch
\* handler starts fs.copyFile.
Rename(c, ok) ==
  /\ pc[c] = "rename"
  /\ IF ok
     THEN /\ runCtxs' = SetVideoPath(runCtxs, frame[c].runCtx)
          /\ Await(c, "tracingStop")
     ELSE /\ Await(c, "copyFile")
          /\ UNCHANGED runCtxs
  /\ UNCHANGED <<now, currentSession, sessionHistory, contexts, serial, overlaps>>

\* Faulty variant: after the fallback copy finishRun closes the context
\* without stopping the trace.
CopyFile_SkipsTraceStop(c, ok) ==
  /\ pc[c] = "copyFile"
  /\ runCtxs' = SetVideoPath(runCtxs, frame[c].runCtx)
  /\ Await(c, "close")
  /\ UNCHANGED <<now, currentSession, sessionHistory, contexts, serial, overlaps>>

\* finishRun: await fs.copyFile(raw, target).catch(() => {}) settles; whether
\* the copy was made (ok) or threw, the next statement is rc.videoPath = target.
CopyFile(c, ok) ==
  /\ pc[c] = "copyFile"
  /\ runCtxs' = SetVideoPath(runCtxs, frame[c].runCtx)
  /\ Await(c, "tracingStop")
  /\ UNCHANGED <<now, currentSession, sessionHistory, contexts, serial, overlaps>>

\* Faulty variant: a throw of tracing.stop is swallowed and finishRun goes on.
TracingStop_Swallowed(c, ok) ==
  /\ pc[c] = "tracingStop"
  /\ Await(c, "close")
  /\ UNCHANGED <<now, currentSession, sessionHistory, contexts, runCtxs, serial, overlaps>>

\* finishRun: await rc.context.tracing.stop({ path }) settles.
TracingStop(c, ok) ==
  /\ pc[c] = "tracingStop"
  /\ IF ok
     THEN Await(c, "close") /\ UNCHANGED <<currentSession, sessionHistory>>
     ELSE StopCatch(c, "tracing.stop failed")
  /\ UNCHANGED <<now, contexts, runCtxs, serial, overlaps>>

\* Faulty variant: the manifest is not stored on the history entry.
UpdateHistory_EndTimeOnly(history, projectId, runId, endTime, artifacts) ==
  LET i == FindEntry(history, projectId, runId)
  IN IF i = 0 THEN history
     ELSE [history EXCEPT ![i].endTime = endTime]

\* historyEntry.endTime = new Date(); historyEntry.artifacts = artifacts,
\* on the entry find() gives, if any.
UpdateHistory(history, projectId, runId, endTime, artifacts) ==
  LET i == FindEntry(history, projectId, runId)
  IN IF i = 0 THEN history
     ELSE [history EXCEPT ![i].endTime = endTime, ![i].artifacts = artifacts]

\* stopRecordingSession after `await finishRun(runCtx)` has given artifacts.
StopDone(c, artifacts) ==
  LET f == frame[c] IN
  /\ sessionHistory' = UpdateHistory(sessionHistory, f.projectId, f.runId, now, artifacts)
  /\ currentSession' = Null
  /\ Return(c, [ op |-> "stop", success |-> TRUE,
                 projectId |-> f.projectId, runId |-> f.runId,
                 artifacts |-> artifacts,
                 message |-> "Recording session stopped: "
                               \o f.projectId \o "/" \o f.runId ])

\* finishRun: await rc.context.close() settles; on success finishRun returns
\* the manifest and stopRecordingSession runs to its end.  A close that throws
\* has not released the context.
Close(c, ok) ==
  /\ pc[c] = "close"
  /\ LET rc == runCtxs[frame[c].runCtx] IN
     IF ok
     THEN /\ contexts' = [contexts EXCEPT ![rc.context].closed = TRUE]
          /\ StopDone(c, Manifest(rc))
     ELSE /\ StopCatch(c, "context.close failed")
          /\ UNCHANGED contexts
  /\ UNCHANGED <<now, runCtxs, serial, overlaps>>

\* ------------------------------------------------------- read operations
\* Faulty variant: the status is derived from the last history entry (a
\* session counts as recording while that entry has no endTime).
getRecordingStatus_FromHistory ==
  LET n == Len(sessionHistory) IN
  IF n = 0 \/ sessionHistory[n].endTime # NoTime
  THEN [ isRecording |-> FALSE ]
  ELSE [ isRecording |-> TRUE,
         currentSession |->
           [ projectId |-> sessionHistory[n].projectId,
             runId     |-> sessionHistory[n].runId,
             startTime |-> sessionHistory[n].startTime,
             duration  |-> now - sessionHistory[n].startTime ] ]

\* getRecordingStatus()
getRecordingStatus ==
  IF currentSession = Null
  THEN [ isRecording |-> FALSE ]
  ELSE [ isRecording |-> TRUE,
         currentSession |->
           [ projectId |-> currentSession.projectId,
             runId     |-> currentSession.runId,
             startTime |-> currentSession.startTime,
             duration  |-> now - currentSession.startTime ] ]

\* Faulty variant: slice(0, limit), the oldest entries.
SliceFromStart(seq, limit) ==
  SubSeq(seq, 1, IF limit < Len(seq) THEN limit ELSE Len(seq))

\* Array.prototype.slice(-limit): from max(length - limit, 0) when limit > 0,
\* from min(-limit, length) when limit <= 0 (slice(-0) is slice(0)).
SliceFromEnd(seq, limit) ==
  LET n == Len(seq)
      from == IF limit > 0 THEN (IF n - limit > 0 THEN n - limit ELSE 0)
              ELSE (IF -limit < n THEN -limit ELSE n)
  IN SubSeq(seq, from + 1, n)

\* Array.prototype.reverse
Reverse(seq) == [i \in 1..Len(seq) |-> seq[Len(seq) + 1 - i]]

\* The view listRecordings maps a history entry to.
ListView(session) ==
  [ projectId |-> session.projectId,
    runId     |-> session.runId,
    startTime |-> session.startTime,
    endTime   |-> session.endTime,
    duration  |-> IF session.endTime # NoTime
                  THEN session.endTime - session.startTime
                  ELSE IF IsCurrent(session.projectId, session.runId)
                       THEN now - session.startTime
                       ELSE NoTime,
    status    |-> IF IsCurrent(session.projectId, session.runId)
                  THEN "active" ELSE "completed",
    artifacts |-> session.artifacts ]

\* listRecordings(limit)
listRecordings(limit) ==
  LET kept == SliceFromEnd(sessionHistory, limit)
  IN [ recordings |-> Reverse([i \in 1..Len(kept) |-> ListView(kept[i])]),
       total      |-> Len(sessionHistory) ]

\* Faulty variant: the history is consulted without the check of the active session.
getRecordingArtifacts_HistoryOnly(projectId, runId) ==
  LET i == FindEntry(sessionHistory, projectId, runId) IN
  IF i = 0
  THEN [ success |-> FALSE,
         message |-> "Recording session not found: " \o projectId \o "/" \o runId ]
  ELSE IF sessionHistory[i].artifacts = Null
  THEN [ success |-> FALSE,
         message |-> "Artifacts not available for session: " \o projectId \o "/" \o runId ]
  ELSE [ success |-> TRUE,
         artifacts |-> sessionHistory[i].artifacts,
         message |-> "Artifacts retrieved for session: " \o projectId \o "/" \o runId ]

\* getRecordingArtifacts(projectId, runId)
getRecordingArtifacts(projectId, runId) ==
  LET i == FindEntry(sessionHistory, projectId, runId) IN
  IF IsCurrent(projectId, runId)
  THEN [ success |-> FALSE,
         message |-> "Recording session is still active. Stop the session to access artifacts." ]
  ELSE IF i = 0
  THEN [ success |-> FALSE,
         message |-> "Recording session not found: " \o projectId \o "/" \o runId ]
  ELSE IF sessionHistory[i].artifacts = Null
  THEN [ success |-> FALSE,
         message |-> "Artifacts not available for session: " \o projectId \o "/" \o runId ]
  ELSE [ success |-> TRUE,
         artifacts |-> sessionHistory[i].artifacts,
         message |-> "Artifacts retrieved for session: " \o projectId \o "/" \o runId ]

\* A handler with no await: it runs to its end in one step.
ReadOnly(c, result) ==
  /\ Dispatch(c)
  /\ response' = result
  /\ UNCHANGED <<now, currentSession, sessionHistory, contexts, runCtxs, serial, pc, frame>>

StatusCall(c) == ReadOnly(c, [op |-> "status"] @@ getRecordingStatus)

ListCall(c, limit) == ReadOnly(c, [op |-> "list", limit |-> limit] @@ listRecordings(limit))

\* Faulty variant: reading the artifacts removes them from the history entry.
GetArtifactsCall_Consumes(c, projectId, runId) ==
  LET i == FindEntry(sessionHistory, projectId, runId) IN
  /\ Dispatch(c)
  /\ response' = [op |-> "getArtifacts", projectId |-> projectId, runId |-> runId]
                   @@ getRecordingArtifacts(projectId, runId)
  /\ sessionHistory' = IF i = 0 THEN sessionHistory
                       ELSE [sessionHistory EXCEPT ![i].artifacts = Null]
  /\ UNCHANGED <<now, currentSession, contexts, runCtxs, serial, pc, frame>>

GetArtifactsCall(c, projectId, runId) ==
  ReadOnly(c, [op |-> "getArtifacts", projectId |-> projectId, runId |-> runId]
                @@ getRecordingArtifacts(projectId, runId))

\* Faulty variant: the clock wraps around to 0 after MaxClock.
Tick_Wraps ==
  /\ now' = (now + 1) % (MaxClock + 1)
  /\ UNCHANGED <<currentSession, sessionHistory, contexts, runCtxs, serial, overlaps, pc, frame, response>>

\* The clock advances.
Tick ==
  /\ now < MaxClock
  /\ now' = now + 1
  /\ UNCHANGED <<currentSession, sessionHistory, contexts, runCtxs, serial, overlaps, pc, frame, response>>

\* ------------------------------------------- the embedded recording server
\* Its handlers contain no await: each runs to its end in one step, and the
\* call-tool handler turns the handler's { result, isError } into the reply.
SrvReply(tool, text, isError) == [ tool |-> tool, text |-> text, isError |-> isError ]

\* sessionHistory.find(s => s.projectId === ... && s.runId === ...) on the
\* server's history: the index of the first match, 0 when there is none.
SrvFindEntry(projectId, runId) == FindEntry(srvSessionHistory, projectId, runId)

\* The artifacts object browser_stop_recording writes on the history entry.
SrvArtifacts(projectId, runId) ==
  [ videoPath      |-> "/data/" \o projectId \o "/" \o runId \o "/video.webm",
    harPath        |-> "/data/" \o projectId \o "/" \o runId \o "/network.har",
    tracePath      |-> "/data/" \o projectId \o "/" \o runId \o "/trace.zip",
    publicVideoUrl |-> "https://videos.qabot.app/" \o projectId \o "/" \o runId \o "/video.webm",
    publicHarUrl   |-> "https://videos.qabot.app/" \o projectId \o "/" \o runId \o "/network.har",
    publicTraceUrl |-> "https://videos.qabot.app/" \o projectId \o "/" \o runId \o "/trace.zip" ]

\* The handler of browser_start_recording.
browser_start_recording(projectId, runId, suffix) ==
  /\ IF srvCurrentSession # Null
     THEN /\ srvResponse' = SrvReply("browser_start_recording",
                                     "Recording session already active: "
                                       \o srvCurrentSession.projectId \o "/"
                                       \o srvCurrentSession.runId,
                                     TRUE)
          /\ UNCHANGED <<srvCurrentSession, srvSessionHistory>>
     ELSE LET id == FinalRunId(runId, now, suffix) IN
          /\ Len(srvSessionHistory) < MaxRecordings
          /\ srvCurrentSession' = [ projectId |-> projectId, runId |-> id, startTime |-> now ]
          /\ srvSessionHistory' = Append(srvSessionHistory,
                                         [ projectId |-> projectId, runId |-> id,
                                           startTime |-> now, status |-> "active",
                                           endTime |-> NoTime, artifacts |-> Null ])
          /\ srvResponse' = SrvReply("browser_start_recording",
                                     "Recording started successfully!\n\nProject: "
                                       \o projectId \o "\nRun ID: " \o id,
                                     FALSE)
  /\ UNCHANGED now

\* The handler of browser_stop_recording.
browser_stop_recording ==
  /\ IF srvCurrentSession = Null
     THEN /\ srvResponse' = SrvReply("browser_stop_recording",
                                     "No active recording session to stop", TRUE)
          /\ UNCHANGED <<srvCurrentSession, srvSessionHistory>>
     ELSE LET session == srvCurrentSession
              i == SrvFindEntry(session.projectId, session.runId)
          IN /\ srvCurrentSession' = Null
             /\ srvSessionHistory' =
                  IF i = 0 THEN srvSessionHistory
                  ELSE [srvSessionHistory EXCEPT
                          ![i].endTime = now,
                          ![i].status = "completed",
                          ![i].artifacts = SrvArtifacts(session.projectId, session.runId)]
             /\ srvResponse' = SrvReply("browser_stop_recording",
                                        "Recording stopped successfully!\n\nProject: "
                                          \o session.projectId \o "\nRun ID: " \o session.runId,
                                        FALSE)
  /\ UNCHANGED now

\* What the handler of browser_get_recording_artifacts returns.
SrvGetArtifacts(projectId, runId) ==
  LET i == SrvFindEntry(projectId, runId) IN
  IF i = 0
  THEN [ result |-> "Recording session not found: " \o projectId \o "/" \o runId,
         isError |-> TRUE ]
  ELSE IF srvSessionHistory[i].artifacts = Null
  THEN [ result |-> "Artifacts not available for session: " \o projectId \o "/" \o runId,
         isError |-> TRUE ]
  ELSE LET artifacts == srvSessionHistory[i].artifacts IN
       [ result |-> "Artifacts for " \o projectId \o "/" \o runId
                      \o ":\n\n- Video: " \o artifacts.publicVideoUrl
                      \o "\n- Network HAR: " \o artifacts.publicHarUrl
                      \o "\n- Trace: " \o artifacts.publicTraceUrl
                      \o "\n\nLocal paths:\n- Video: " \o artifacts.videoPath
                      \o "\n- HAR: " \o artifacts.harPath
                      \o "\n- Trace: " \o artifacts.tracePath,
         isError |-> FALSE ]

\* The handler of browser_get_recording_artifacts.
browser_get_recording_artifacts(projectId, runId) ==
  /\ srvResponse' = SrvReply("browser_get_recording_artifacts",
                             SrvGetArtifacts(projectId, runId).result,
                             SrvGetArtifacts(projectId, runId).isError)
                      @@ [ projectId |-> projectId, runId |-> runId ]
  /\ UNCHANGED <<now, srvCurrentSession, srvSessionHistory>>

\* The runIds a caller of the server can name.
SrvKnownRunIds ==
  (RunIdArgs \ {""}) \cup {srvSessionHistory[i].runId : i \in 1..Len(srvSessionHistory)}

\* ------------------------------- the call-tool handler of the recording server
\* The four base browser tools, the recording tools, and names that are
\* neither.
BaseTools == {"browser_navigate", "browser_click", "browser_type", "browser_screenshot"}
RecordingTools == {"browser_start_recording", "browser_stop_recording",
                   "browser_recording_status", "browser_list_recordings",
                   "browser_get_recording_artifacts"}
OtherTools == {"browser_hover", ""}

\* constructor: this.browser, this.context and this.page are not set.
ToolsInit ==
  /\ thisBrowser = 0
  /\ thisContext = 0
  /\ thisPage = 0
  /\ launched = 0
  /\ toolPc = Idle
  /\ toolFrame = NoFrame

\* new McpError(code, message), thrown to the caller of the handler.
McpError(tool, code, message) ==
  [ tool |-> tool, thrown |-> [ code |-> code, message |-> message ] ]

\* catch (error) { throw new McpError(ErrorCode.InternalError, ...) }: what
\* the handler's catch block makes of anything thrown inside the try block.
CallToolCatch(tool, message) ==
  McpError(tool, "InternalError", "Tool execution failed: " \o message)

\* The text a base tool returns.
BaseToolText(tool) ==
  CASE tool = "browser_navigate" -> "Navigated to url"
    [] tool = "browser_click" -> "Clicked on selector"
    [] tool = "browser_type" -> "Typed \"text\" into selector"
    [] tool = "browser_screenshot" -> "Screenshot saved as screenshot.png"

\* The handler returns or throws: its slot is free and `reply` is the answer.
ToolReturn(c, reply) ==
  /\ toolPc' = [toolPc EXCEPT ![c] = "idle"]
  /\ toolFrame' = [toolFrame EXCEPT ![c] = Null]
  /\ srvResponse' = reply

\* The call-tool handler for a base tool, up to its first pending await:
\* ensureBrowser() starts chromium.launch() when this.browser is not set,
\* else returns at once and the tool's this.page.<method>() call is made,
\* which is a TypeError when this.page is still undefined.
CallBaseTool(c, tool) ==
  /\ toolPc[c] = "idle"
  /\ IF thisBrowser = 0
     THEN /\ launched + Cardinality({d \in Callers : toolPc[d] = "launch"}) < MaxLaunches
          /\ toolPc' = [toolPc EXCEPT ![c] = "launch"]
          /\ toolFrame' = [toolFrame EXCEPT ![c] = [tool |-> tool, own |-> 0, page |-> 0]]
          /\ UNCHANGED srvResponse
     ELSE IF thisPage = 0
     THEN /\ ToolReturn(c, CallToolCatch(tool, "Cannot read properties of undefined"))
     ELSE /\ toolPc' = [toolPc EXCEPT ![c] = "action"]
          /\ toolFrame' = [toolFrame EXCEPT ![c] = [tool |-> tool, own |-> 0, page |-> thisPage]]
          /\ UNCHANGED srvResponse
  /\ UNCHANGED <<thisBrowser, thisContext, thisPage, launched>>

\* ensureBrowser: this.browser = await chromium.launch(...) settles; the
\* next call, this.browser.newContext(), is made in the same stretch.
Launch(c, ok) ==
  /\ toolPc[c] = "launch"
  /\ IF ok
     THEN /\ launched' = launched + 1
          /\ thisBrowser' = launched + 1
          /\ toolPc' = [toolPc EXCEPT ![c] = "browserNewContext"]
          /\ toolFrame' = [toolFrame EXCEPT ![c].own = launched + 1]
          /\ UNCHANGED srvResponse
     ELSE /\ ToolReturn(c, CallToolCatch(toolFrame[c].tool, "launch failed"))
          /\ UNCHANGED <<launched, thisBrowser>>
  /\ UNCHANGED <<thisContext, thisPage>>

\* ensureBrowser: this.context = await this.browser.newContext() settles; the
\* context is one of the browser this call launched.
BrowserNewContext(c, ok) ==
  /\ toolPc[c] = "browserNewContext"
  /\ IF ok
     THEN /\ thisContext' = toolFrame[c].own
          /\ toolPc' = [toolPc EXCEPT ![c] = "contextNewPage"]
          /\ UNCHANGED <<toolFrame, srvResponse>>
     ELSE /\ ToolReturn(c, CallToolCatch(toolFrame[c].tool, "newContext failed"))
          /\ UNCHANGED thisContext
  /\ UNCHANGED <<thisBrowser, thisPage, launched>>

\* ensureBrowser: this.page = await this.context.newPage() settles;
\* ensureBrowser returns and the tool's this.page.<method>() call is made.
ContextNewPage(c, ok) ==
  /\ toolPc[c] = "contextNewPage"
  /\ IF ok
     THEN /\ thisPage' = toolFrame[c].own
          /\ toolPc' = [toolPc EXCEPT ![c] = "action"]
          /\ toolFrame' = [toolFrame EXCEPT ![c].page = toolFrame[c].own]
          /\ UNCHANGED srvResponse
     ELSE /\ ToolReturn(c, CallToolCatch(toolFrame[c].tool, "newPage failed"))
          /\ UNCHANGED thisPage
  /\ UNCHANGED <<thisBrowser, thisContext, launched>>

\* await this.page.goto / click / type / screenshot settles.
PageAction(c, ok) ==
  /\ toolPc[c] = "action"
  /\ ToolReturn(c, IF ok
                   THEN SrvReply(toolFrame[c].tool, BaseToolText(toolFrame[c].tool), FALSE)
                   ELSE CallToolCatch(toolFrame[c].tool, "page action failed"))
  /\ UNCHANGED <<thisBrowser, thisContext, thisPage, launched>>

\* default: throw new McpError(ErrorCode.MethodNotFound, `Unknown tool: ...`)
\* inside the try block, so the catch block receives it.
UnknownTool(tool) == CallToolCatch(tool, "Unknown tool: " \o tool)

\* The call-tool handler for a name that recordingTools.default.find does
\* not find and no case of the switch matches.
CallOtherTool(c, tool) ==
  /\ toolPc[c] = "idle"
  /\ srvResponse' = UnknownTool(tool)
  /\ UNCHANGED <<thisBrowser, thisContext, thisPage, launched, toolPc, toolFrame>>

\* The call-tool handler for a recording tool: the tool's handler has no
\* await and its { result, isError } is the reply.
CallRecordingTool(c, step) ==
  /\ toolPc[c] = "idle"
  /\ step
  /\ UNCHANGED toolVars

\* -------------------------------------------------------- specifications
InitState ==
  /\ now = 0
  /\ currentSession = Null
  /\ sessionHistory = <<>>
  /\ contexts = <<>>
  /\ runCtxs = <<>>
  /\ overlaps = 0
  /\ pc = Idle
  /\ frame = NoFrame
  /\ response = Null
  /\ srvCurrentSession = Null
  /\ srvSessionHistory = <<>>
  /\ srvResponse = Null
  /\ tracing = {}
  /\ ToolsInit

\* Requests may overlap: a request is dispatched while another is suspended.
Init == InitState /\ serial = FALSE

\* Each request runs to completion before the next is dispatched.
InitSerial == InitState /\ serial = TRUE

\* The runIds a caller can name: the ones it passes and the generated ones.
KnownRunIds ==
  (RunIdArgs \ {""}) \cup {sessionHistory[i].runId : i \in 1..Len(sessionHistory)}

Next ==
  \/ \E c \in Callers, p \in ProjectIds, r \in RunIdArgs, s \in RandomSuffixes :
       StartCall(c, p, r, s) /\ UNCHANGED <<srvVars, extVars>>
  \/ \E c \in Callers, ok \in BOOLEAN : Mkdir(c, ok) /\ UNCHANGED <<srvVars, extVars>>
  \/ \E c \in Callers, ok \in BOOLEAN : NewContext(c, ok) /\ UNCHANGED <<srvVars, extVars>>
  \/ \E c \in Callers, ok \in BOOLEAN : TracingStart(c, ok) /\ UNCHANGED <<srvVars, extVars>>
  \/ \E c \in Callers, ok \in BOOLEAN : NewPage(c, ok) /\ UNCHANGED <<srvVars, extVars>>
  \/ \E c \in Callers, hasVideo \in BOOLEAN : StopCall(c, hasVideo) /\ UNCHANGED <<srvVars, extVars>>
  \/ \E c \in Callers, ok \in BOOLEAN : VideoPath(c, ok) /\ UNCHANGED <<srvVars, extVars>>
  \/ \E c \in Callers, ok \in BOOLEAN : Rename(c, ok) /\ UNCHANGED <<srvVars, extVars>>
  \/ \E c \in Callers, ok \in BOOLEAN : CopyFile(c, ok) /\ UNCHANGED <<srvVars, extVars>>
  \/ \E c \in Callers, ok \in BOOLEAN : TracingStop(c, ok) /\ UNCHANGED <<srvVars, extVars>>
  \/ \E c \in Callers, ok \in BOOLEAN : Close(c, ok) /\ UNCHANGED <<srvVars, extVars>>
  \/ \E c \in Callers : StatusCall(c) /\ UNCHANGED <<srvVars, extVars>>
  \/ \E c \in Callers, limit \in Limits : ListCall(c, limit) /\ UNCHANGED <<srvVars, extVars>>
  \/ \E c \in Callers, p \in ProjectIds, r \in KnownRunIds : GetArtifactsCall(c, p, r) /\ UNCHANGED <<srvVars, extVars>>
  \/ Tick /\ UNCHANGED <<srvVars, extVars>>

Spec == Init /\ [][Next]_vars

SpecSerial == InitSerial /\ [][Next]_vars

\* The identities <<projectId, runId>> a start at clock 0 can give a session.
Identities ==
  ProjectIds \X {FinalRunId(r, 0, s) : r \in RunIdArgs, s \in RandomSuffixes}

RECURSIVE Recorded(_)
\* The manager after the sessions of the identities ids[1], ids[2], ... were
\* started and stopped one after the other with no failure and no video, at
\* clock 0: each start is StartDone, each stop is StopDone.
Recorded(ids) ==
  IF ids = <<>>
  THEN [ history |-> <<>>, contexts |-> <<>>, runCtxs |-> <<>> ]
  ELSE LET before == Recorded(SubSeq(ids, 1, Len(ids) - 1))
           p == ids[Len(ids)][1]
           r == ids[Len(ids)][2]
           rc == NewRunCtx(Len(ids), p, r)
       IN [ history  |-> UpdateHistory(Append(before.history, NewEntry(p, r, 0)),
                                       p, r, 0, Manifest(rc)),
            contexts |-> Append(before.contexts, [closed |-> TRUE]),
            runCtxs  |-> Append(before.runCtxs, rc) ]

\* listRecordings on its own: the manager has recorded up to MaxHistory
\* sessions, and the last of them may still be active.
InitList ==
  /\ now = 0
  /\ serial = TRUE
  /\ overlaps = 0
  /\ pc = Idle
  /\ frame = NoFrame
  /\ response = Null
  /\ srvCurrentSession = Null
  /\ srvSessionHistory = <<>>
  /\ srvResponse = Null
  /\ tracing = {}
  /\ ToolsInit
  /\ \E n \in 0..MaxHistory, active \in BOOLEAN :
       \E ids \in [1..n -> Identities] :
         LET done == Recorded(ids) IN
         IF active /\ n > 0
         THEN LET before == Recorded(SubSeq(ids, 1, n - 1)) IN
              /\ sessionHistory = Append(before.history, NewEntry(ids[n][1], ids[n][2], 0))
              /\ currentSession = NewSession(ids[n][1], ids[n][2], 0, n)
              /\ contexts = Append(before.contexts, [closed |-> FALSE])
              /\ runCtxs = done.runCtxs
         ELSE /\ sessionHistory = done.history
              /\ currentSession = Null
              /\ contexts = done.contexts
              /\ runCtxs = done.runCtxs

ListNext ==
  \E c \in Callers, limit \in ListLimits : ListCall(c, limit) /\ UNCHANGED <<srvVars, extVars>>

SpecList == InitList /\ [][ListNext]_vars

\* The `limit` arguments a caller may pass, the schema's bounds not being
\* enforced anywhere: inside 1..100, zero, negative, above 100.
AnyLimits == {-2, -1, 0, 1, 2, 3, 101}

\* handleListRecordings: listRecordings(args.limit || 10); 0 is falsy.
handleListRecordings(c, limit) ==
  ReadOnly(c, [op |-> "list", limit |-> limit]
                @@ listRecordings(IF limit = 0 THEN 10 ELSE limit))

\* listRecordings called with any number, directly or through the tool
\* handler, on the histories of InitList.
ListArgsNext ==
  \/ \E c \in Callers, limit \in AnyLimits :
       ListCall(c, limit) /\ UNCHANGED <<srvVars, extVars>>
  \/ \E c \in Callers, limit \in AnyLimits :
       handleListRecordings(c, limit) /\ UNCHANGED <<srvVars, extVars>>

SpecListArgs == InitList /\ [][ListArgsNext]_vars

\* The manifest a session of projectId/runId ends with: startRun derives the
\* paths, finishRun sets the video path when there is a video and builds the
\* manifest.
DeriveManifest(projectId, runId, hasVideo) ==
  LET rc == NewRunCtx(1, projectId, runId)
      done == IF hasVideo THEN SetVideoPath(<<rc>>, 1)[1] ELSE rc
  IN /\ response' = [ op |-> "manifest", projectId |-> projectId, runId |-> runId,
                      artifacts |-> Manifest(done) ]
     /\ UNCHANGED <<now, currentSession, sessionHistory, contexts, runCtxs,
                    serial, overlaps, pc, frame>>

PathsNext ==
  \E p \in PathProjectIds, r \in PathRunIds, hasVideo \in BOOLEAN :
    DeriveManifest(p, r, hasVideo) /\ UNCHANGED <<srvVars, extVars>>

\* The path derivation of startRun / finishRun on its own.
SpecPaths == InitSerial /\ [][PathsNext]_vars

\* The embedded recording server alone: the session manager is not called.
SrvNext ==
  \/ \E p \in ProjectIds, r \in RunIdArgs, s \in RandomSuffixes :
       browser_start_recording(p, r, s) /\ UNCHANGED <<mgrVars, extVars>>
  \/ browser_stop_recording /\ UNCHANGED <<mgrVars, extVars>>
  \/ \E p \in ProjectIds, r \in SrvKnownRunIds :
       browser_get_recording_artifacts(p, r) /\ UNCHANGED <<mgrVars, extVars>>
  \/ Tick /\ UNCHANGED <<srvVars, extVars>>

SpecServer == InitSerial /\ [][SrvNext]_vars

\* The session manager on a browser whose tracing.stop() throws when the
\* context has no trace capture running (it was never started, or a
\* tracing.stop() of an earlier finishRun has ended it).
\* startRun: await context.tracing.start(...) settles on that browser.
BrowserTracingStart(c, ok) ==
  /\ TracingStart(c, ok)
  /\ tracing' = IF ok THEN tracing \cup {frame[c].context} ELSE tracing

\* finishRun: await rc.context.tracing.stop({ path }) settles on that browser.
BrowserTracingStop(c, ok) ==
  LET context == runCtxs[frame[c].runCtx].context IN
  /\ TracingStop(c, ok)
  /\ ok => context \in tracing
  /\ tracing' = IF ok THEN tracing \ {context} ELSE tracing

RetryNext ==
  \/ \E c \in Callers, p \in ProjectIds, r \in RunIdArgs, s \in RandomSuffixes :
       StartCall(c, p, r, s) /\ UNCHANGED <<srvVars, extVars>>
  \/ \E c \in Callers, ok \in BOOLEAN : Mkdir(c, ok) /\ UNCHANGED <<srvVars, extVars>>
  \/ \E c \in Callers, ok \in BOOLEAN : NewContext(c, ok) /\ UNCHANGED <<srvVars, extVars>>
  \/ \E c \in Callers, ok \in BOOLEAN : BrowserTracingStart(c, ok) /\ UNCHANGED <<srvVars, toolVars>>
  \/ \E c \in Callers, ok \in BOOLEAN : NewPage(c, ok) /\ UNCHANGED <<srvVars, extVars>>
  \/ \E c \in Callers, hasVideo \in BOOLEAN : StopCall(c, hasVideo) /\ UNCHANGED <<srvVars, extVars>>
  \/ \E c \in Callers, ok \in BOOLEAN : VideoPath(c, ok) /\ UNCHANGED <<srvVars, extVars>>
  \/ \E c \in Callers, ok \in BOOLEAN : Rename(c, ok) /\ UNCHANGED <<srvVars, extVars>>
  \/ \E c \in Callers, ok \in BOOLEAN : CopyFile(c, ok) /\ UNCHANGED <<srvVars, extVars>>
  \/ \E c \in Callers, ok \in BOOLEAN : BrowserTracingStop(c, ok) /\ UNCHANGED <<srvVars, toolVars>>
  \/ \E c \in Callers, ok \in BOOLEAN : Close(c, ok) /\ UNCHANGED <<srvVars, extVars>>
  \/ Tick /\ UNCHANGED <<srvVars, extVars>>

\* The caller goes on calling stop while a session is active, every await
\* settles, and a collaborator call that can succeed again and again does
\* succeed at some time.
RetryFairness ==
  /\ WF_vars(\E c \in Callers, hasVideo \in BOOLEAN :
               StopCall(c, hasVideo) /\ currentSession # Null
                 /\ UNCHANGED <<srvVars, extVars>>)
  /\ WF_vars(\E c \in Callers, ok \in BOOLEAN : VideoPath(c, ok) /\ UNCHANGED <<srvVars, extVars>>)
  /\ WF_vars(\E c \in Callers, ok \in BOOLEAN : Rename(c, ok) /\ UNCHANGED <<srvVars, extVars>>)
  /\ WF_vars(\E c \in Callers, ok \in BOOLEAN : CopyFile(c, ok) /\ UNCHANGED <<srvVars, extVars>>)
  /\ WF_vars(\E c \in Callers, ok \in BOOLEAN : BrowserTracingStop(c, ok) /\ UNCHANGED <<srvVars, toolVars>>)
  /\ SF_vars(\E c \in Callers : BrowserTracingStop(c, TRUE) /\ UNCHANGED <<srvVars, toolVars>>)
  /\ WF_vars(\E c \in Callers, ok \in BOOLEAN : Close(c, ok) /\ UNCHANGED <<srvVars, extVars>>)
  /\ SF_vars(\E c \in Callers : Close(c, TRUE) /\ UNCHANGED <<srvVars, extVars>>)

SpecRetry == InitSerial /\ [][RetryNext]_vars /\ RetryFairness

\* Requests may overlap, but a start is dispatched only when no other start
\* is in flight: starts overlap stops and reads, never one another.
StartInFlight ==
  \E d \in Callers : pc[d] \in {"mkdir", "newContext", "tracingStart", "newPage"}

StartsApartNext ==
  \/ \E c \in Callers, p \in ProjectIds, r \in RunIdArgs, s \in RandomSuffixes :
       ~StartInFlight /\ StartCall(c, p, r, s) /\ UNCHANGED <<srvVars, extVars>>
  \/ \E c \in Callers, ok \in BOOLEAN : Mkdir(c, ok) /\ UNCHANGED <<srvVars, extVars>>
  \/ \E c \in Callers, ok \in BOOLEAN : NewContext(c, ok) /\ UNCHANGED <<srvVars, extVars>>
  \/ \E c \in Callers, ok \in BOOLEAN : TracingStart(c, ok) /\ UNCHANGED <<srvVars, extVars>>
  \/ \E c \in Callers, ok \in BOOLEAN : NewPage(c, ok) /\ UNCHANGED <<srvVars, extVars>>
  \/ \E c \in Callers, hasVideo \in BOOLEAN : StopCall(c, hasVideo) /\ UNCHANGED <<srvVars, extVars>>
  \/ \E c \in Callers, ok \in BOOLEAN : VideoPath(c, ok) /\ UNCHANGED <<srvVars, extVars>>
  \/ \E c \in Callers, ok \in BOOLEAN : Rename(c, ok) /\ UNCHANGED <<srvVars, extVars>>
  \/ \E c \in Callers, ok \in BOOLEAN : CopyFile(c, ok) /\ UNCHANGED <<srvVars, extVars>>
  \/ \E c \in Callers, ok \in BOOLEAN : TracingStop(c, ok) /\ UNCHANGED <<srvVars, extVars>>
  \/ \E c \in Callers, ok \in BOOLEAN : Close(c, ok) /\ UNCHANGED <<srvVars, extVars>>
  \/ \E c \in Callers, p \in ProjectIds, r \in KnownRunIds :
       GetArtifactsCall(c, p, r) /\ UNCHANGED <<srvVars, extVars>>
  \/ Tick /\ UNCHANGED <<srvVars, extVars>>

SpecStartsApart == Init /\ [][StartsApartNext]_vars

\* The same sequence of calls is made on the session manager and on the
\* embedded recording server, one call at a time; every collaborator call of
\* the manager succeeds and page.video() gives a handle.
BothStart(c, projectId, runId, suffix) ==
  /\ StartCall(c, projectId, runId, suffix)
  /\ browser_start_recording(projectId, runId, suffix)
  /\ UNCHANGED extVars

BothStop(c) ==
  /\ StopCall(c, TRUE)
  /\ browser_stop_recording
  /\ UNCHANGED extVars

BothGetArtifacts(c, projectId, runId) ==
  /\ GetArtifactsCall(c, projectId, runId)
  /\ browser_get_recording_artifacts(projectId, runId)
  /\ UNCHANGED extVars

LockstepNext ==
  \/ \E c \in Callers, p \in ProjectIds, r \in RunIdArgs, s \in RandomSuffixes :
       BothStart(c, p, r, s)
  \/ \E c \in Callers : Mkdir(c, TRUE) /\ UNCHANGED <<srvVars, extVars>>
  \/ \E c \in Callers : NewContext(c, TRUE) /\ UNCHANGED <<srvVars, extVars>>
  \/ \E c \in Callers : TracingStart(c, TRUE) /\ UNCHANGED <<srvVars, extVars>>
  \/ \E c \in Callers : NewPage(c, TRUE) /\ UNCHANGED <<srvVars, extVars>>
  \/ \E c \in Callers : BothStop(c)
  \/ \E c \in Callers : VideoPath(c, TRUE) /\ UNCHANGED <<srvVars, extVars>>
  \/ \E c \in Callers : Rename(c, TRUE) /\ UNCHANGED <<srvVars, extVars>>
  \/ \E c \in Callers : TracingStop(c, TRUE) /\ UNCHANGED <<srvVars, extVars>>
  \/ \E c \in Callers : Close(c, TRUE) /\ UNCHANGED <<srvVars, extVars>>
  \/ \E c \in Callers, p \in ProjectIds, r \in KnownRunIds : BothGetArtifacts(c, p, r)
  \/ Tick /\ UNCHANGED <<srvVars, extVars>>

SpecLockstep == InitSerial /\ [][LockstepNext]_vars

\* The call-tool handler of the recording server: base tools, the recording
\* tools start / stop / get-artifacts, and unknown names; the calls of
\* different requests interleave at their awaits.
ToolsNext ==
  \/ \E c \in Callers, tool \in BaseTools :
       CallBaseTool(c, tool) /\ UNCHANGED <<now, mgrVars, srvCurrentSession, srvSessionHistory, tracing>>
  \/ \E c \in Callers, ok \in BOOLEAN :
       Launch(c, ok) /\ UNCHANGED <<now, mgrVars, srvCurrentSession, srvSessionHistory, tracing>>
  \/ \E c \in Callers, ok \in BOOLEAN :
       BrowserNewContext(c, ok) /\ UNCHANGED <<now, mgrVars, srvCurrentSession, srvSessionHistory, tracing>>
  \/ \E c \in Callers, ok \in BOOLEAN :
       ContextNewPage(c, ok) /\ UNCHANGED <<now, mgrVars, srvCurrentSession, srvSessionHistory, tracing>>
  \/ \E c \in Callers, ok \in BOOLEAN :
       PageAction(c, ok) /\ UNCHANGED <<now, mgrVars, srvCurrentSession, srvSessionHistory, tracing>>
  \/ \E c \in Callers, tool \in OtherTools :
       CallOtherTool(c, tool) /\ UNCHANGED <<now, mgrVars, srvCurrentSession, srvSessionHistory, tracing>>
  \/ \E c \in Callers, r \in RunIdArgs, s \in RandomSuffixes :
       CallRecordingTool(c, browser_start_recording("p", r, s)) /\ UNCHANGED <<mgrVars, tracing>>
  \/ \E c \in Callers :
       CallRecordingTool(c, browser_stop_recording) /\ UNCHANGED <<mgrVars, tracing>>
  \/ \E c \in Callers, r \in SrvKnownRunIds :
       CallRecordingTool(c, browser_get_recording_artifacts("p", r)) /\ UNCHANGED <<mgrVars, tracing>>

SpecTools == Init /\ [][ToolsNext]_vars

\* ------------------------------------------------------------- properties
\* The reply to the latest request is the result of `op`.
Replied(op) == response # Null /\ response.op = op

\* The history entries listRecordings(limit) reports as active.
ActiveListed(limit) ==
  LET recs == listRecordings(limit).recordings
  IN {i \in 1..Len(recs) : recs[i].status = "active"}

\* The contexts that were created and are not closed.
OpenContexts == {i \in 1..Len(contexts) : ~contexts[i].closed}

\* The indices of the history entries that are stopped sessions with the
\* identity (projectId, runId).
FinalizedWith(projectId, runId) ==
  {i \in 1..Len(sessionHistory) :
     /\ sessionHistory[i].projectId = projectId
     /\ sessionHistory[i].runId = runId
     /\ sessionHistory[i].artifacts # Null}

\* C1: a start while a session is active is answered success:false with a
\* message naming the active projectId/runId; startRun is not called (no
\* handler is suspended, no context is made) and the active session and the
\* history stay as they were, whatever projectId/runId the start names.
C1_StartWhileActiveRejected ==
  [][\A c \in Callers, p \in ProjectIds, r \in RunIdArgs, s \in RandomSuffixes :
       (currentSession # Null /\ StartCall(c, p, r, s)) =>
         /\ response' # Null
         /\ response'.op = "start"
         /\ response'.success = FALSE
         /\ response'.message = "Recording session already active: "
                                  \o currentSession.projectId \o "/" \o currentSession.runId
         /\ pc' = pc
         /\ UNCHANGED <<currentSession, sessionHistory, contexts, runCtxs>>]_vars

\* C1 witness: a start naming another project was rejected while a session
\* is active.
C1_Witness ==
  /\ Replied("start")
  /\ ~response.success
  /\ currentSession # Null
  /\ response.projectId # currentSession.projectId
  /\ response.message = "Recording session already active: "
                          \o currentSession.projectId \o "/" \o currentSession.runId

\* C2: for every limit, listRecordings reports at most one entry as active.
C2_AtMostOneActiveListed ==
  \A limit \in Limits : Cardinality(ActiveListed(limit)) <= 1

\* C3: with requests processed one at a time, at most one context made by
\* startRun is open.
C3_AtMostOneOpenContext == Cardinality(OpenContexts) <= 1

\* C4: of two overlapping starts at most one makes a recording context, and a
\* start that returns success:true does not take the active slot from a
\* session that was started and not stopped.
C4_OverlappingStartsExclusive ==
  [][\A c \in Callers :
       /\ NewContext(c, TRUE) =>
            \A d \in Callers \ {c} : pc[d] \notin {"tracingStart", "newPage"}
       /\ NewPage(c, TRUE) => currentSession = Null]_vars

\* C5: a stop whose finishRun throws (trace stop or context close) returns
\* success:false, leaves the active session, its recording context and the
\* history as they were, and the manager still holds a session, so that the
\* next stop is not answered with "no active session".
C5_FailedStopKeepsRecording ==
  [][\A c \in Callers :
       (TracingStop(c, FALSE) \/ Close(c, FALSE)) =>
         /\ response' # Null
         /\ response'.op = "stop"
         /\ response'.success = FALSE
         /\ currentSession # Null
         /\ currentSession' = currentSession
         /\ currentSession'.runCtx = frame[c].runCtx
         /\ runCtxs'[currentSession'.runCtx].context = runCtxs[currentSession.runCtx].context
         /\ sessionHistory' = sessionHistory
         /\ ~NoActiveSession']_vars

\* C5 witness: a stop failed at context close and the session is still active.
C5_Witness ==
  /\ Replied("stop")
  /\ ~response.success
  /\ response.message = "Failed to stop recording session: context.close failed"
  /\ currentSession # Null
  /\ currentSession.runId = response.runId

\* C6: a start whose startRun throws returns success:false, leaves the manager
\* Idle and the history as it was, and the next start is not rejected as
\* already active.
C6_FailedStartStaysIdle ==
  [][\A c \in Callers :
       (Mkdir(c, FALSE) \/ NewContext(c, FALSE) \/ TracingStart(c, FALSE) \/ NewPage(c, FALSE)) =>
         /\ response' # Null
         /\ response'.op = "start"
         /\ response'.success = FALSE
         /\ currentSession' = Null
         /\ sessionHistory' = sessionHistory
         /\ ~AlreadyActive']_vars

\* C6 witness: a start failed at newPage after an earlier session was
\* recorded, and the manager is Idle.
C6_Witness ==
  /\ Replied("start")
  /\ ~response.success
  /\ response.message = "Failed to start recording session: newPage failed"
  /\ currentSession = Null
  /\ Len(sessionHistory) >= 1

\* C7: a stop with no active session returns success:false, does not call
\* finishRun (no handler is suspended) and changes neither the active slot nor
\* the history.
C7_StopWhenIdleRejected ==
  [][\A c \in Callers, hasVideo \in BOOLEAN :
       (currentSession = Null /\ StopCall(c, hasVideo)) =>
         /\ response' # Null
         /\ response'.op = "stop"
         /\ response'.success = FALSE
         /\ pc' = pc
         /\ UNCHANGED <<currentSession, sessionHistory, contexts, runCtxs>>]_vars

\* C7 witness: a stop was rejected with a session in the history.
C7_Witness ==
  /\ Replied("stop")
  /\ ~response.success
  /\ response.message = "No active recording session to stop"
  /\ currentSession = Null
  /\ Len(sessionHistory) >= 1

\* C8: no two history entries have the same (projectId, runId).
C8_UniqueIdentity ==
  \A i, j \in 1..Len(sessionHistory) :
    i # j => \/ sessionHistory[i].projectId # sessionHistory[j].projectId
             \/ sessionHistory[i].runId # sessionHistory[j].runId

\* C9: once a history entry has endTime and artifacts, no step changes them.
C9_FinalizedOnce ==
  [][\A i \in 1..Len(sessionHistory) :
       (sessionHistory[i].endTime # NoTime /\ sessionHistory[i].artifacts # Null) =>
         /\ i <= Len(sessionHistory')
         /\ sessionHistory'[i].endTime = sessionHistory[i].endTime
         /\ sessionHistory'[i].artifacts = sessionHistory[i].artifacts]_vars

\* C10: getRecordingArtifacts for the identity of the active session returns
\* success:false with the "still active" message, whatever the history holds.
C10_ActiveSessionGuarded ==
  \A p \in ProjectIds, r \in KnownRunIds :
    IsCurrent(p, r) =>
      getRecordingArtifacts(p, r) =
        [ success |-> FALSE,
          message |-> "Recording session is still active. Stop the session to access artifacts." ]

\* C10 witness: getRecordingArtifacts was rejected for the active identity
\* while an older stopped session of the same identity holds artifacts.
C10_Witness ==
  /\ Replied("getArtifacts")
  /\ ~response.success
  /\ IsCurrent(response.projectId, response.runId)
  /\ FinalizedWith(response.projectId, response.runId) # {}
  /\ response.message = "Recording session is still active. Stop the session to access artifacts."

\* The request in slot c is a stop suspended inside `await finishRun(runCtx)`.
Finalizing(c) == pc[c] \in {"videoPath", "rename", "copyFile", "tracingStop", "close"}

\* A finishRun for a session of the identity (projectId, runId) has returned
\* its manifest: the context of such a session is closed.
FinishRunReturned(projectId, runId) ==
  \E i \in DOMAIN runCtxs :
    contexts[i].closed /\ runCtxs[i].baseDir = BaseDir(projectId, runId)

\* C11: while a stop awaits finishRun, the session it captured is still the
\* active one (status reports isRecording, a start would be rejected as
\* already active, getRecordingArtifacts for its identity is rejected); and
\* getRecordingArtifacts succeeds only for an identity for which a finishRun
\* has returned.
C11_FinalizeBeforeRead ==
  /\ \A c \in Callers :
       Finalizing(c) =>
         /\ IsCurrent(frame[c].projectId, frame[c].runId)
         /\ currentSession.runCtx = frame[c].runCtx
         /\ getRecordingStatus.isRecording
         /\ AlreadyActive
         /\ ~getRecordingArtifacts(frame[c].projectId, frame[c].runId).success
  /\ \A p \in ProjectIds, r \in KnownRunIds :
       getRecordingArtifacts(p, r).success => FinishRunReturned(p, r)

\* The recording server's active session has the identity (projectId, runId).
SrvIsCurrent(projectId, runId) ==
  /\ srvCurrentSession # Null
  /\ srvCurrentSession.projectId = projectId
  /\ srvCurrentSession.runId = runId

\* C12: in the embedded recording server, browser_get_recording_artifacts
\* never returns artifacts for the identity of the currently active session.
C12_ServerActiveSessionGuarded ==
  \A p \in ProjectIds, r \in SrvKnownRunIds :
    SrvIsCurrent(p, r) => SrvGetArtifacts(p, r).isError

\* The latest reply is that of a stop that succeeded.
StoppedOk == Replied("stop") /\ response.success

\* The public base URL followed by projectId/runId/<file name>.
PublicUrl(projectId, runId, file) == PublicBase \o projectId \o "/" \o runId \o "/" \o file

\* C13 as stated: after a stop succeeded for p/r, getRecordingArtifacts(p, r)
\* returns success:true with the manifest that stop returned, in which the
\* video, HAR and trace public URLs are all the public base URL followed by
\* p/r/<file name>.
C13_AllThreeUrlsPopulated ==
  StoppedOk =>
    LET got == getRecordingArtifacts(response.projectId, response.runId) IN
    /\ got.success
    /\ got.artifacts = response.artifacts
    /\ got.artifacts.publicVideoUrl = PublicUrl(response.projectId, response.runId, "video.webm")
    /\ got.artifacts.publicHarUrl = PublicUrl(response.projectId, response.runId, "network.har")
    /\ got.artifacts.publicTraceUrl = PublicUrl(response.projectId, response.runId, "trace.zip")

\* C13 amended: after a stop succeeded for p/r, getRecordingArtifacts(p, r)
\* returns success:true with the manifest that stop returned; its HAR and
\* trace public URLs are the public base URL followed by p/r/<file name>, and
\* its video public URL is that of p/r/video.webm when a finishRun of the
\* session resolved the video path, and undefined when none did.
C13_ArtifactsAfterStop ==
  StoppedOk =>
    LET got == getRecordingArtifacts(response.projectId, response.runId) IN
    /\ got.success
    /\ got.artifacts = response.artifacts
    /\ \E i \in DOMAIN runCtxs :
         /\ contexts[i].closed
         /\ runCtxs[i].baseDir = BaseDir(response.projectId, response.runId)
         /\ got.artifacts.publicVideoUrl =
              IF runCtxs[i].videoPath # Undefined
              THEN PublicUrl(response.projectId, response.runId, "video.webm")
              ELSE Undefined
    /\ got.artifacts.publicHarUrl = PublicUrl(response.projectId, response.runId, "network.har")
    /\ got.artifacts.publicTraceUrl = PublicUrl(response.projectId, response.runId, "trace.zip")

\* C13 witness: a stop of p/r succeeded with the video in place, and
\* getRecordingArtifacts gives its manifest.
C13_Witness ==
  /\ StoppedOk
  /\ response.artifacts.publicVideoUrl = PublicUrl(response.projectId, response.runId, "video.webm")
  /\ getRecordingArtifacts(response.projectId, response.runId).success
  /\ getRecordingArtifacts(response.projectId, response.runId).artifacts = response.artifacts

\* C14: when fs.rename has failed and the fallback fs.copyFile fails too,
\* finishRun goes on to the trace stop with videoPath unset, so that the
\* manifest it builds has neither videoPath nor publicVideoUrl.
C14_BothFailLeavesVideoUnset ==
  [][\A c \in Callers :
       CopyFile(c, FALSE) =>
         /\ pc'[c] = "tracingStop"
         /\ Manifest(runCtxs'[frame[c].runCtx]).videoPath = Undefined
         /\ Manifest(runCtxs'[frame[c].runCtx]).publicVideoUrl = Undefined]_vars

C16_TraceStopFailurePropagates ==
  [][\A c \in Callers :
       TracingStop(c, FALSE) =>
         /\ response' # Null
         /\ response'.op = "stop"
         /\ response'.success = FALSE
         /\ response'.message = "Failed to stop recording session: tracing.stop failed"
         /\ "artifacts" \notin DOMAIN response'
         /\ pc'[c] = "idle"
         /\ contexts' = contexts
         /\ sessionHistory' = sessionHistory]_vars

\* C16 witness: a stop failed at the trace stop, and the entry of the session
\* it tried to stop has neither endTime nor artifacts.
C16_Witness ==
  /\ Replied("stop")
  /\ ~response.success
  /\ response.message = "Failed to stop recording session: tracing.stop failed"
  /\ \E i \in 1..Len(sessionHistory) :
       /\ sessionHistory[i].projectId = response.projectId
       /\ sessionHistory[i].runId = response.runId
       /\ sessionHistory[i].endTime = NoTime
       /\ sessionHistory[i].artifacts = Null

\* The awaits of finishRun in the order a call may pass from one to the next:
\* video reconciliation (videoPath, rename, copyFile), trace stop, context
\* close; "idle" is the return of stopRecordingSession.
FinishRunOrder ==
  { <<"videoPath", "rename">>, <<"videoPath", "tracingStop">>,
    <<"rename", "copyFile">>, <<"rename", "tracingStop">>,
    <<"copyFile", "tracingStop">>,
    <<"tracingStop", "close">>, <<"tracingStop", "idle">>,
    <<"close", "idle">> }

\* C17: every finishRun passes through video reconciliation, trace stop and
\* context close in this order; a failure inside the video reconciliation
\* leads to the trace stop; the context a finishRun works on stays open up to
\* its close step, and it is closed only by a step out of the close.
C17_FinishRunOrdered ==
  [][\A c \in Callers :
       /\ (Finalizing(c) /\ pc'[c] # pc[c]) => <<pc[c], pc'[c]>> \in FinishRunOrder
       /\ (VideoPath(c, FALSE) \/ CopyFile(c, FALSE)) => pc'[c] = "tracingStop"
       /\ TracingStop(c, TRUE) => pc'[c] = "close"
       /\ Finalizing(c) => ~contexts[runCtxs[frame[c].runCtx].context].closed
       /\ \A i \in 1..Len(contexts) :
            (contexts'[i].closed /\ ~contexts[i].closed) =>
              \E d \in Callers : pc[d] = "close" /\ runCtxs[frame[d].runCtx].context = i]_vars

\* C17 witness: a finishRun whose video reconciliation failed has stopped the
\* trace and is at the context close.
C17_Witness ==
  \E c \in Callers :
    /\ pc[c] = "close"
    /\ runCtxs[frame[c].runCtx].videoPath = Undefined
    /\ ~contexts[runCtxs[frame[c].runCtx].context].closed

\* C18: a finishRun that fails leaves the RunCtx it was given as it was.  A
\* session lasts until a finishRun succeeds, so after every failed stop the
\* RunCtx of the active session has the fields startRun gave it, videoPath
\* (unset) included.
C18_FailedFinishRunKeepsContext ==
  (Replied("stop") /\ ~response.success /\ currentSession # Null) =>
    runCtxs[currentSession.runCtx] =
      NewRunCtx(runCtxs[currentSession.runCtx].context,
                currentSession.projectId, currentSession.runId)

\* The smaller of two numbers.
Min(a, b) == IF a < b THEN a ELSE b

\* C19: for every limit in 1..100 and every history of n entries,
\* listRecordings(limit) returns min(limit, n) entries, the views of the last
\* min(limit, n) history entries with the newest first, and total is n.
C19_ListMostRecentFirst ==
  \A limit \in 1..100 :
    LET res == listRecordings(limit)
        n == Len(sessionHistory)
    IN /\ Len(res.recordings) = Min(limit, n)
       /\ res.total = n
       /\ \A i \in 1..Min(limit, n) : res.recordings[i] = ListView(sessionHistory[n + 1 - i])

\* C19 witness: list(2) after three stopped sessions of different identities
\* replied with two entries, the third session first and the second after
\* it, and total 3.
C19_Witness ==
  /\ Replied("list")
  /\ response.limit = 2
  /\ currentSession = Null
  /\ Len(sessionHistory) = 3
  /\ \A i, j \in 1..3 :
       i # j => <<sessionHistory[i].projectId, sessionHistory[i].runId>>
                  # <<sessionHistory[j].projectId, sessionHistory[j].runId>>
  /\ \A i \in 1..3 : sessionHistory[i].artifacts # Null
  /\ response.total = 3
  /\ Len(response.recordings) = 2
  /\ response.recordings[1] = ListView(sessionHistory[3])
  /\ response.recordings[2] = ListView(sessionHistory[2])

\* C20: in the list view an entry with the identity of the active session
\* reports status active and the live duration now - startTime, and every
\* other entry reports completed and the fixed duration endTime - startTime,
\* or no duration when it has no endTime.
C20_ListStatusAndDuration ==
  \A limit \in Limits :
    LET recs == listRecordings(limit).recordings IN
    \A i \in 1..Len(recs) :
      IF IsCurrent(recs[i].projectId, recs[i].runId)
      THEN /\ recs[i].status = "active"
           /\ recs[i].duration = now - recs[i].startTime
      ELSE /\ recs[i].status = "completed"
           /\ recs[i].duration = IF recs[i].endTime # NoTime
                                 THEN recs[i].endTime - recs[i].startTime
                                 ELSE NoTime

\* C21: getRecordingStatus, listRecordings and getRecordingArtifacts change
\* neither the active slot nor any history entry (nor a recording context),
\* and right after getRecordingArtifacts(p, r) a second call with the same
\* arguments returns the same result.
C21_ReadsChangeNothing ==
  [][\A c \in Callers :
       /\ (StatusCall(c) \/ \E limit \in Limits : ListCall(c, limit)) =>
            UNCHANGED <<currentSession, sessionHistory, contexts, runCtxs>>
       /\ \A p \in ProjectIds, r \in KnownRunIds :
            GetArtifactsCall(c, p, r) =>
              /\ UNCHANGED <<currentSession, sessionHistory, contexts, runCtxs>>
              /\ response' # Null
              /\ response'.op = "getArtifacts"
              /\ getRecordingArtifacts(p, r)' = getRecordingArtifacts(p, r)
              /\ response'.success = getRecordingArtifacts(p, r)'.success
              /\ response'.success =>
                   response'.artifacts = getRecordingArtifacts(p, r)'.artifacts]_vars

\* C21 witness: getRecordingArtifacts returned the manifest of a stopped
\* session, and a second call would return the same manifest.
C21_Witness ==
  /\ Replied("getArtifacts")
  /\ response.success
  /\ getRecordingArtifacts(response.projectId, response.runId).success
  /\ getRecordingArtifacts(response.projectId, response.runId).artifacts = response.artifacts

\* The step is the return of a start with success:true.
StartSucceeds ==
  \E c \in Callers :
    /\ pc[c] = "newPage"
    /\ pc'[c] = "idle"
    /\ response' # Null
    /\ response'.op = "start"
    /\ response'.success

\* C22: the history grows by one entry, at its end and with the identity the
\* start returns, in exactly the steps in which a start returns success:true;
\* no other step changes its length, and no step removes or moves an entry
\* or changes the projectId, runId or startTime of one.
C22_HistoryAppendOnly ==
  [][/\ Len(sessionHistory') = Len(sessionHistory) + (IF StartSucceeds THEN 1 ELSE 0)
     /\ \A i \in 1..Len(sessionHistory) :
          /\ sessionHistory'[i].projectId = sessionHistory[i].projectId
          /\ sessionHistory'[i].runId = sessionHistory[i].runId
          /\ sessionHistory'[i].startTime = sessionHistory[i].startTime
     /\ StartSucceeds =>
          /\ sessionHistory'[Len(sessionHistory')].projectId = response'.projectId
          /\ sessionHistory'[Len(sessionHistory')].runId = response'.runId]_vars

\* C22 witness: a second start has returned success:true and the history has
\* two entries, the first of them a stopped session.
C22_Witness ==
  /\ Replied("start")
  /\ response.success
  /\ Len(sessionHistory) = 2
  /\ sessionHistory[1].artifacts # Null
  /\ sessionHistory[2].runId = response.runId

\* The step ends the handler in slot c, or a handler with no await, with a
\* returned result of `op` that has success:false and a message.
FailureReturned(op) ==
  /\ response' # Null
  /\ response'.op = op
  /\ "success" \in DOMAIN response'
  /\ response'.success = FALSE
  /\ "message" \in DOMAIN response'
  /\ Len(response'.message) > 0

\* C23: each domain failure of start, stop and getArtifacts ends the call
\* with a returned { success: false, message } (the handler is not left
\* suspended and nothing is thrown): a start while a session is active, a
\* throw of a collaborator inside startRun or finishRun, a stop with no active
\* session, and getArtifacts for the active identity, for an unknown identity
\* and for an entry without artifacts.
C23_FailuresAreReturned ==
  [][\A c \in Callers :
       /\ \A p \in ProjectIds, r \in RunIdArgs, s \in RandomSuffixes :
            (currentSession # Null /\ StartCall(c, p, r, s)) =>
              FailureReturned("start") /\ pc'[c] = "idle"
       /\ (Mkdir(c, FALSE) \/ NewContext(c, FALSE) \/ TracingStart(c, FALSE) \/ NewPage(c, FALSE)) =>
              FailureReturned("start") /\ pc'[c] = "idle"
       /\ \A hasVideo \in BOOLEAN :
            (currentSession = Null /\ StopCall(c, hasVideo)) =>
              FailureReturned("stop") /\ pc'[c] = "idle"
       /\ (TracingStop(c, FALSE) \/ Close(c, FALSE)) =>
              FailureReturned("stop") /\ pc'[c] = "idle"
       /\ \A p \in ProjectIds, r \in KnownRunIds :
            ( /\ GetArtifactsCall(c, p, r)
              /\ \/ IsCurrent(p, r)
                 \/ FindEntry(sessionHistory, p, r) = 0
                 \/ sessionHistory[FindEntry(sessionHistory, p, r)].artifacts = Null ) =>
              FailureReturned("getArtifacts") /\ pc'[c] = "idle"]_vars

\* C23 witness: getRecordingArtifacts returned the "artifacts not available"
\* failure for an entry that is in the history, is not the active session and
\* has no artifacts.
C23_Witness ==
  /\ Replied("getArtifacts")
  /\ ~response.success
  /\ ~IsCurrent(response.projectId, response.runId)
  /\ FindEntry(sessionHistory, response.projectId, response.runId) # 0
  /\ response.message = "Artifacts not available for session: "
                          \o response.projectId \o "/" \o response.runId

\* The RunCtx of the most recent start that returned success:true (the
\* contexts are numbered in the order of their creation); 0 when no start
\* has succeeded.
LastStarted ==
  IF DOMAIN runCtxs = {} THEN 0
  ELSE CHOOSE i \in DOMAIN runCtxs : \A j \in DOMAIN runCtxs : j <= i

\* C24: with requests processed one at a time, getRecordingStatus reports
\* isRecording exactly when the most recent successful start has not been
\* followed by a successful stop (its context has not been closed by a
\* finishRun that returned); it then names the projectId/runId of that start
\* (the last history entry), and otherwise it carries no session.
C24_StatusNamesOpenSession ==
  LET st == getRecordingStatus IN
  /\ st.isRecording <=> (currentSession # Null)
  /\ st.isRecording <=> (LastStarted # 0 /\ ~contexts[runCtxs[LastStarted].context].closed)
  /\ st.isRecording =>
       /\ st.currentSession.projectId = sessionHistory[Len(sessionHistory)].projectId
       /\ st.currentSession.runId = sessionHistory[Len(sessionHistory)].runId
       /\ BaseDir(st.currentSession.projectId, st.currentSession.runId)
            = runCtxs[LastStarted].baseDir
       /\ currentSession.runCtx = LastStarted
  /\ ~st.isRecording => DOMAIN st = {"isRecording"}

\* C24 witness: status was asked while the second session is recording,
\* after the first one was stopped, and it names the second.
C24_Witness ==
  /\ Replied("status")
  /\ response.isRecording
  /\ Len(sessionHistory) = 2
  /\ sessionHistory[1].artifacts # Null
  /\ response.currentSession.projectId = sessionHistory[2].projectId
  /\ response.currentSession.runId = sessionHistory[2].runId

\* The latest reply is a manifest derived for a projectId/runId.
ManifestDerived == Replied("manifest")

\* s with its prefix StorageRoot replaced by PublicBase.
RootReplaced(s) == PublicBase \o SubSeq(s, Len(StorageRoot) + 1, Len(s))

\* C25: for every projectId and runId the manifest's harPath, tracePath and
\* (when present) videoPath are <storageRoot>/<projectId>/<runId>/<file
\* name>, and each public URL is the local path with the storage root at its
\* start replaced by the public base URL.
C25_ManifestLayout ==
  ManifestDerived =>
    LET a == response.artifacts
        dir == StorageRoot \o response.projectId \o "/" \o response.runId
    IN /\ a.harPath = dir \o "/network.har"
       /\ a.tracePath = dir \o "/trace.zip"
       /\ a.videoPath # Undefined => a.videoPath = dir \o "/video.webm"
       /\ a.publicHarUrl = RootReplaced(a.harPath)
       /\ a.publicTraceUrl = RootReplaced(a.tracePath)
       /\ a.publicVideoUrl = IF a.videoPath = Undefined THEN Undefined
                             ELSE RootReplaced(a.videoPath)

\* C26: no manifest contains a public URL that does not begin with the public
\* base URL (a local path outside the storage root is not turned into one).
C26_PublicUrlsUnderBase ==
  ManifestDerived =>
    LET a == response.artifacts IN
    /\ MatchesAt(a.publicHarUrl, PublicBase, 1)
    /\ MatchesAt(a.publicTraceUrl, PublicBase, 1)
    /\ a.publicVideoUrl # Undefined => MatchesAt(a.publicVideoUrl, PublicBase, 1)

SampleSuffixes == RandomSuffixes \cup {"0", "1", "1x", "x1", "10"}

\* C28: a start with an omitted (or empty) runId generates
\* run_<clock>_<suffix>, which the successful start returns; it differs from
\* the runId of every history entry of the same project that was generated
\* at another clock value, and a runId generated at the current clock value
\* differs from one generated at any other clock value whatever the two
\* random suffixes are.
C28_GeneratedRunIdsDiffer ==
  [][/\ \A c \in Callers, p \in ProjectIds, s \in RandomSuffixes :
          (currentSession = Null /\ StartCall(c, p, "", s)) =>
            /\ frame'[c].finalRunId = "run_" \o ToString(now) \o "_" \o s
            /\ \A i \in 1..Len(sessionHistory) :
                 ( /\ sessionHistory[i].projectId = p
                   /\ \E t \in 0..MaxClock, s2 \in RandomSuffixes :
                        t # now /\ sessionHistory[i].runId = FinalRunId("", t, s2) ) =>
                   sessionHistory[i].runId # frame'[c].finalRunId
            /\ \A t2 \in 0..(MaxClock + 10), s1, s2 \in SampleSuffixes :
                 t2 # now => FinalRunId("", now, s1) # FinalRunId("", t2, s2)
     /\ \A c \in Callers :
          NewPage(c, TRUE) => response'.runId = frame[c].finalRunId]_vars

\* C28 witness: two starts of the same project with omitted runId succeeded
\* at clock 0 and at clock 1, and their runIds differ.
C28_Witness ==
  /\ Replied("start")
  /\ response.success
  /\ Len(sessionHistory) = 2
  /\ sessionHistory[1].projectId = sessionHistory[2].projectId
  /\ sessionHistory[1].runId = "run_0_x"
  /\ sessionHistory[2].runId = "run_1_x"

\* C29: after a successful stop every history entry other than the entry of
\* an active session has both endTime and artifacts (the stop finalized the
\* entry its session's start appended).
C29_StoppedEntriesFinalized ==
  StoppedOk =>
    \A i \in 1..Len(sessionHistory) :
      (currentSession # Null => i # Len(sessionHistory)) =>
        /\ sessionHistory[i].endTime # NoTime
        /\ sessionHistory[i].artifacts # Null

\* C30: a stop that completes after another stop of the same session has
\* completed (the context of the session it captured is closed already)
\* clears the active slot only if the slot still holds the session it
\* captured; a session that was started in the meantime stays in the slot.
C30_StopClearsOnlyItsSession ==
  [][\A c \in Callers :
       (pc[c] = "close" /\ Close(c, TRUE)) =>
         ( ( /\ contexts[runCtxs[frame[c].runCtx].context].closed
             /\ currentSession # Null
             /\ currentSession.runCtx # frame[c].runCtx ) =>
             currentSession' = currentSession )]_vars

\* The latest reply is a stop that failed when context.close() threw; its
\* finishRun had stopped the trace capture before.
StopFailedAtClose ==
  /\ Replied("stop")
  /\ ~response.success
  /\ response.message = "Failed to stop recording session: context.close failed"

\* C31: after a stop that failed at context.close(), on a browser whose
\* tracing.stop() throws when no trace capture is running, a retried stop
\* eventually succeeds once context.close() no longer fails: the manager
\* returns to Idle.
C31_RetriedStopSucceeds == StopFailedAtClose ~> (currentSession = Null)

\* getRecordingArtifacts(projectId, runId) gives the "artifacts not
\* available" outcome.
ArtifactsNotAvailable(projectId, runId) ==
  getRecordingArtifacts(projectId, runId) =
    [ success |-> FALSE,
      message |-> "Artifacts not available for session: " \o projectId \o "/" \o runId ]

\* C32: getRecordingArtifacts never gives the "artifacts not available"
\* outcome as long as no two start calls overlap (in particular when calls
\* are processed one at a time): the entry found by the identity lookup has
\* artifacts unless its identity is the active session's.
C32_NotAvailableNeedsOverlappingStarts ==
  \A p \in ProjectIds, r \in KnownRunIds : ~ArtifactsNotAvailable(p, r)

\* C33: with calls processed one at a time, while a session is active the
\* last history entry has its projectId and runId and neither endTime nor
\* artifacts, and while none is active listRecordings reports no entry as
\* active.
C33_ActiveIsLastEntry ==
  serial =>
    /\ currentSession # Null =>
         /\ Len(sessionHistory) >= 1
         /\ LET last == sessionHistory[Len(sessionHistory)] IN
            /\ last.projectId = currentSession.projectId
            /\ last.runId = currentSession.runId
            /\ last.endTime = NoTime
            /\ last.artifacts = Null
    /\ currentSession = Null => \A limit \in Limits : ActiveListed(limit) = {}

\* C33 witness: a stop of the second session of a reused identity has
\* failed; the session is still active and its entry, the last one, is
\* untouched while the first entry of that identity is finalized.
C33_Witness ==
  /\ serial
  /\ Replied("stop")
  /\ ~response.success
  /\ currentSession # Null
  /\ Len(sessionHistory) = 2
  /\ sessionHistory[1].projectId = currentSession.projectId
  /\ sessionHistory[1].runId = currentSession.runId
  /\ sessionHistory[1].artifacts # Null

\* C34: in the recording server a history entry has status "active" exactly
\* when it is the entry pushed by the start of the session in the active
\* slot (the last entry, while a session is active); with an empty slot no
\* entry has status "active".
C34_ServerActiveStatus ==
  \A i \in 1..Len(srvSessionHistory) :
    srvSessionHistory[i].status = "active" <=>
      (srvCurrentSession # Null /\ i = Len(srvSessionHistory))

\* The recording server's tool for an operation of the session manager.
ToolOf(op) ==
  CASE op = "start" -> "browser_start_recording"
    [] op = "stop" -> "browser_stop_recording"
    [] op = "getArtifacts" -> "browser_get_recording_artifacts"

\* The three public URLs of an artifacts object.
PublicUrls(artifacts) ==
  <<artifacts.publicVideoUrl, artifacts.publicHarUrl, artifacts.publicTraceUrl>>

\* The manager's reply and the server's reply to the same call are both
\* successes or both errors.
SameOutcome ==
  response # Null =>
    /\ srvResponse # Null
    /\ srvResponse.tool = ToolOf(response.op)
    /\ response.success = ~srvResponse.isError

\* Where both have returned artifacts, the public URLs are the same.
SameUrls ==
  (response # Null /\ response.success /\ response.op \in {"stop", "getArtifacts"}
     /\ srvResponse # Null /\ ~srvResponse.isError) =>
    LET i == SrvFindEntry(response.projectId, response.runId) IN
    /\ i # 0
    /\ srvSessionHistory[i].artifacts # Null
    /\ PublicUrls(response.artifacts) = PublicUrls(srvSessionHistory[i].artifacts)

\* With no call in flight the two histories have the same entries active:
\* the manager's list view against the server's stored status.
SameActiveEntries ==
  (\A c \in Callers : pc[c] = "idle") =>
    /\ Len(sessionHistory) = Len(srvSessionHistory)
    /\ \A i \in 1..Len(sessionHistory) :
         (ListView(sessionHistory[i]).status = "active") <=>
           (srvSessionHistory[i].status = "active")

\* C35: when every collaborator call succeeds and a video is recorded, the
\* session manager and the recording server answer every call of a sequence
\* with the same outcome (success or error) and the same artifact URLs, and
\* their histories agree on which entry is active.
C35_ServerMatchesManager == SameOutcome /\ SameUrls /\ SameActiveEntries

\* C36: for every limit passed, also 0, negative numbers and numbers above
\* 100, the list operation returns at most min(limit, 100) entries (none for
\* a limit below 1), and not the whole history when limit is smaller than
\* the history length.
C36_ListHonoursLimit ==
  Replied("list") =>
    LET n == Len(response.recordings)
        most == IF response.limit < 0 THEN 0 ELSE Min(response.limit, 100)
    IN /\ n <= most
       /\ (Len(sessionHistory) > 0 /\ response.limit < Len(sessionHistory)) =>
            n < Len(sessionHistory)

\* C37: a call naming a tool that is neither a recording tool nor one of
\* the four base browser tools is answered with an McpError whose code is
\* MethodNotFound.
C37_UnknownToolIsMethodNotFound ==
  (srvResponse # Null /\ srvResponse.tool \notin RecordingTools \cup BaseTools) =>
    srvResponse.thrown.code = "MethodNotFound"

\* C38: the recording server launches at most one browser, and the calls
\* that are at their page action all work on the same page.
C38_OneBrowserOnePage ==
  /\ launched <= 1
  /\ \A c, d \in Callers :
       (toolPc[c] = "action" /\ toolPc[d] = "action") =>
         toolFrame[c].page = toolFrame[d].page
====
